---- MODULE Spec2Model ----
(***************************************************************************)
(* Readme-Ranker: the README analyzer (ReadMeAnalyzer.analyze) as a state  *)
(* machine.  A document is a sequence of one-character strings; every      *)
(* regular expression of the two rule catalogs is an operator over such a  *)
(* sequence, written position by position from the pattern's elements.     *)
(* Positions are 1-based; an "end" is the position after the last matched  *)
(* character, and 0 stands for "no match".                                 *)
(***************************************************************************)
EXTENDS Integers, Sequences, FiniteSets, TLC

(***************************************************************************)
(* Character classes of the ECMAScript patterns.  A character that cannot  *)
(* be written in a string here stands as its code point.                   *)
(***************************************************************************)
VerticalTab == "<U+000B>"
NoBreakSpace == "<U+00A0>"
ByteOrderMark == "<U+FEFF>"
LineSeparator == "<U+2028>"
ParagraphSeparator == "<U+2029>"
\* the Unicode category Zs besides the space and the no-break space
SpaceSeparator ==
    {"<U+1680>", "<U+2000>", "<U+2001>", "<U+2002>", "<U+2003>", "<U+2004>", "<U+2005>",
     "<U+2006>", "<U+2007>", "<U+2008>", "<U+2009>", "<U+200A>", "<U+202F>", "<U+205F>",
     "<U+3000>"}
\* the characters '.' refuses, and that ^ and $ recognise under the m flag
LineTerminator == {"\n", "\r", LineSeparator, ParagraphSeparator}
\* \s, and what trim() removes
WhiteSpace ==
    {" ", "\t", "\f", VerticalTab, NoBreakSpace, ByteOrderMark} \cup SpaceSeparator
        \cup LineTerminator
UpperSeq == <<"A","B","C","D","E","F","G","H","I","J","K","L","M","N","O","P","Q","R","S","T","U",
    "V","W","X","Y","Z">>
LowerSeq == <<"a","b","c","d","e","f","g","h","i","j","k","l","m","n","o","p","q","r","s","t","u",
    "v","w","x","y","z">>
DigitSeq == <<"0","1","2","3","4","5","6","7","8","9">>
Upper == {UpperSeq[k] : k \in 1..Len(UpperSeq)}
Lower == {LowerSeq[k] : k \in 1..Len(LowerSeq)}
\* \d
Digit == {DigitSeq[k] : k \in 1..Len(DigitSeq)}
\* \w
WordChar == Upper \cup Lower \cup Digit \cup {"_"}
\* [\w\s\-] of the title-format pattern
TitleChar == WordChar \cup WhiteSpace \cup {"-"}
\* [-\s|:] of the table pattern
TableRuleChar == WhiteSpace \cup {"-", "|", ":"}
\* [-*+] of the list pattern
Bullet == {"-", "*", "+"}

\* the i flag: both sides are compared after case folding
LowerOf == [c \in Upper |-> LowerSeq[CHOOSE k \in 1..Len(UpperSeq) : UpperSeq[k] = c]]
Canon(c) == IF c \in Upper THEN LowerOf[c] ELSE c

\* what a pattern element sees past either end of the input
EndOfInput == "<eof>"
At(s, i) == IF i >= 1 /\ i <= Len(s) THEN s[i] ELSE EndOfInput

Max(S) == CHOOSE x \in S : \A y \in S : y <= x
Min(S) == CHOOSE x \in S : \A y \in S : x <= y

\* a literal at position i
LitAt(s, i, lit) ==
    /\ i >= 1
    /\ i + Len(lit) - 1 <= Len(s)
    /\ \A k \in 1..Len(lit) : s[i + k - 1] = lit[k]

\* a literal at position i under the i flag (lit is lower case)
LitAtCI(s, i, lit) ==
    /\ i >= 1
    /\ i + Len(lit) - 1 <= Len(s)
    /\ \A k \in 1..Len(lit) : Canon(s[i + k - 1]) = lit[k]

\* the first alternative of (w1|w2|...) that matches at i under the i flag, 0 if none
AltAtCI(s, i, words) ==
    LET hits == {w \in 1..Len(words) : LitAtCI(s, i, words[w])}
    IN IF hits = {} THEN 0 ELSE Min(hits)

\* (w1|w2|...) somewhere in s[from..to-1], under the i flag
AltWithinCI(s, from, to, words) ==
    \E q \in from..(to - 1) : \E w \in 1..Len(words) :
        /\ q + Len(words[w]) <= to
        /\ LitAtCI(s, q, words[w])

\* ^ under the m flag
LineStart(s, i) == i = 1 \/ At(s, i - 1) \in LineTerminator
\* $ under the m flag
LineEnd(s, i) == i = Len(s) + 1 \/ At(s, i) \in LineTerminator

\* the first position of lo..hi where P holds, 0 if there is none
FirstIn(lo, hi, P(_)) ==
    IF \E p \in lo..hi : P(p)
    THEN CHOOSE p \in lo..hi : P(p) /\ \A q \in lo..(p - 1) : ~P(q)
    ELSE 0

\* the end of a greedy run of a class starting at i
RunEnd(s, i, class) ==
    IF i > Len(s) THEN i
    ELSE CHOOSE e \in i..(Len(s) + 1) :
             /\ e = Len(s) + 1 \/ s[e] \notin class
             /\ \A k \in i..(e - 1) : s[k] \in class

\* the end of a greedy run of characters outside a set starting at i
RunEndNot(s, i, stop) ==
    IF i > Len(s) THEN i
    ELSE CHOOSE e \in i..(Len(s) + 1) :
             /\ e = Len(s) + 1 \/ s[e] \in stop
             /\ \A k \in i..(e - 1) : s[k] \notin stop

SkipSpace(s, i) == RunEnd(s, i, WhiteSpace)
SkipHash(s, i) == RunEnd(s, i, {"#"})
\* where a run of '.' starting at i must stop
EndOfLine(s, i) == RunEndNot(s, i, LineTerminator)

\* the grave accent U+0060, which a TLA+ string cannot hold
BackTick == "<grave>"
Fence == <<BackTick, BackTick, BackTick>>

(***************************************************************************)
(* sectionCriteria: the patterns of the primary catalog.                   *)
(***************************************************************************)
\* /^#\s.+/m and /^>\s.+/m
MarkerLineTest(s, marker) ==
    \E i \in 1..Len(s) :
        /\ s[i] = marker
        /\ LineStart(s, i)
        /\ At(s, i + 1) \in WhiteSpace
        /\ i + 2 <= Len(s)
        /\ s[i + 2] \notin LineTerminator

\* /##?\s*(w1|w2|...)/i at position i: the end of the match, 0 if none.  ##? tries
\* two '#' first; \s* is greedy, and giving whitespace back cannot help since no
\* word of any catalog pattern starts with whitespace.
HashWordEnd(s, i, words) ==
    IF At(s, i) # "#" THEN 0
    ELSE LET Try(j) == LET k == SkipSpace(s, j)
                           w == AltAtCI(s, k, words)
                       IN IF w = 0 THEN 0 ELSE k + Len(words[w])
             two == IF At(s, i + 1) = "#" THEN Try(i + 2) ELSE 0
         IN IF two # 0 THEN two ELSE Try(i + 1)

HashWordTest(s, words) == \E i \in 1..Len(s) : HashWordEnd(s, i, words) # 0

\* /!\[.*\]\(.*\)/ at position i: the end of the greedy match, 0 if none.  Both
\* .* stay on the line of i; the second one runs to the last ')' of the line.
BadgeEnd(s, i) ==
    IF ~(At(s, i) = "!" /\ At(s, i + 1) = "[") THEN 0
    ELSE LET le == EndOfLine(s, i)
             opens == {j \in (i + 2)..(le - 2) : s[j] = "]" /\ s[j + 1] = "("}
             closes == {k \in (i + 4)..(le - 1) : s[k] = ")" /\ \E j \in opens : j + 2 <= k}
         IN IF closes = {} THEN 0 ELSE Max(closes) + 1

BadgeTest(s) == \E i \in 1..Len(s) : BadgeEnd(s, i) # 0

DescriptionWords == <<<<"o","v","e","r","v","i","e","w">>, <<"d","e","s","c","r","i","p","t","i",
    "o","n">>>>
InstallationWords == <<<<"i","n","s","t","a","l","l","a","t","i","o","n">>>>
UsageWords == <<<<"u","s","a","g","e">>>>
ExampleWords == <<<<"e","x","a","m","p","l","e">>>>
ContributingWords == <<<<"c","o","n","t","r","i","b","u","t","i","n","g">>>>
LicenseWords == <<<<"l","i","c","e","n","s","e">>>>

\* crit.regex.test(content), by rule name
SectionRegexTest(name, s) ==
    CASE name = "Title" -> MarkerLineTest(s, "#")
      [] name = "Description" -> HashWordTest(s, DescriptionWords)
      [] name = "Installation" -> HashWordTest(s, InstallationWords)
      [] name = "Usage" -> HashWordTest(s, UsageWords)
      [] name = "Example" -> HashWordTest(s, ExampleWords)
      [] name = "Contributing" -> HashWordTest(s, ContributingWords)
      [] name = "License" -> HashWordTest(s, LicenseWords)
      [] name = "Badges" -> BadgeTest(s)

(***************************************************************************)
(* extraCriteria: the patterns of the secondary catalog.                   *)
(***************************************************************************)
\* /^# [A-Z][\w\s\-]+$/m : the class holds \s, so the run may cross lines, and $
\* may stand after any one or more of its characters
ProperTitleTest(s) ==
    \E i \in 1..Len(s) :
        /\ s[i] = "#"
        /\ LineStart(s, i)
        /\ At(s, i + 1) = " "
        /\ At(s, i + 2) \in Upper
        /\ \E e \in (i + 4)..RunEnd(s, i + 3, TitleChar) : LineEnd(s, e)

\* the lookahead (?=\n##? |\n# |\n$) at position p; there is no m flag here, so $
\* is the end of the input
SectionLookahead(s, p) ==
    /\ At(s, p) = "\n"
    /\ \/ At(s, p + 1) = "#" /\ At(s, p + 2) = "#" /\ At(s, p + 3) = " "
       \/ At(s, p + 1) = "#" /\ At(s, p + 2) = " "
       \/ p = Len(s)

NoMatch == [index |-> 0, group |-> 0, end |-> 0]

\* /##?\s*(w1|...)([\s\S]*?)(?=\n##? |\n# |\n$)/i at position i, the words ending
\* at e (0 if they do not match at i): the lazy group ends at the first position
\* from e on where the lookahead holds
SectionMatchAt(s, i, e) ==
    IF e = 0 THEN NoMatch
    ELSE [index |-> i, group |-> e,
          end |-> FirstIn(e, Len(s), LAMBDA p : SectionLookahead(s, p))]

\* content.match(...) with that pattern: the leftmost match as [index, group, end],
\* where match[0] is s[index..end-1] and the lazy group is s[group..end-1];
\* NoMatch for null
SectionMatchFirst(s, words, i) ==
    IF i = 0 THEN NoMatch ELSE SectionMatchAt(s, i, HashWordEnd(s, i, words))

SectionMatch(s, words) ==
    SectionMatchFirst(s, words,
        FirstIn(1, Len(s),
                LAMBDA i : SectionMatchAt(s, i, HashWordEnd(s, i, words)).end # 0))

\* String.prototype.trim, then length
TrimLength(t) ==
    LET keep == {k \in 1..Len(t) : t[k] \notin WhiteSpace}
    IN IF keep = {} THEN 0 ELSE Max(keep) - Min(keep) + 1

\* match[0].split('\n').slice(1).join(' ') : what follows the first newline, its
\* newlines turned into spaces
JoinTail(t) ==
    LET nls == {k \in 1..Len(t) : t[k] = "\n"}
    IN IF nls = {} THEN <<>>
       ELSE LET first == Min(nls)
            IN [k \in 1..(Len(t) - first) |->
                   IF t[first + k] = "\n" THEN " " ELSE t[first + k]]

MinDescriptionLength == 50

LongDescription(s, m) ==
    /\ m # NoMatch
    /\ TrimLength(JoinTail(SubSeq(s, m.index, m.end - 1))) > MinDescriptionLength

DescriptionLengthCheck(s) == LongDescription(s, SectionMatch(s, DescriptionWords))

TocWords == <<<<"t","a","b","l","e"," ","o","f"," ","c","o","n","t","e","n","t","s">>>>

\* the g flag: the matches of /!\[.*\]\(.*\)/ from position i on, the leftmost
\* one starting at q (0 if there is none), each search starting where the last
\* match ended
RECURSIVE BadgeMatches(_, _)
NextBadge(s, i) == FirstIn(i, Len(s), LAMBDA q : BadgeEnd(s, q) # 0)
BadgeMatchesAt(s, q) == IF q = 0 THEN 0 ELSE 1 + BadgeMatches(s, BadgeEnd(s, q))
BadgeMatches(s, i) == BadgeMatchesAt(s, NextBadge(s, i))

MultipleBadgesCheck(s) == BadgeMatches(s, 1) > 1

ImageWords == <<<<"s","c","r","e","e","n","s","h","o","t">>, <<"i","m","a","g","e">>, <<"d","e",
    "m","o">>, <<"p","r","e","v","i","e","w">>>>

\* /!\[.*(screenshot|image|demo|preview).*?\]\(.*\)/i
ImagesCheck(s) ==
    \E i \in 1..Len(s) :
        /\ s[i] = "!"
        /\ At(s, i + 1) = "["
        /\ LET le == EndOfLine(s, i)
           IN \E q \in (i + 2)..(le - 1) : \E w \in 1..Len(ImageWords) :
                /\ LitAtCI(s, q, ImageWords[w])
                /\ \E j \in (q + Len(ImageWords[w]))..(le - 2) :
                     /\ s[j] = "]"
                     /\ s[j + 1] = "("
                     /\ \E k \in (j + 2)..(le - 1) : s[k] = ")"

LinkOpen == <<"]","(","h","t","t","p">>
SchemeEnd == <<":","/","/">>

\* /\[.*?\]\(https?:\/\/.*?\)/
LinksCheck(s) ==
    \E i \in 1..Len(s) :
        /\ s[i] = "["
        /\ LET le == EndOfLine(s, i)
           IN \E j \in (i + 1)..(le - 1) :
                /\ LitAt(s, j, LinkOpen)
                /\ LET a == j + Len(LinkOpen)
                       b == IF At(s, a) = "s" THEN a + 1 ELSE a
                   IN /\ LitAt(s, b, SchemeEnd)
                      /\ \E k \in (b + Len(SchemeEnd))..(le - 1) : s[k] = ")"

\* ^\s* ending right before position w
SpaceBackToLineStart(s, w) ==
    \E i \in 1..w : LineStart(s, i) /\ \A k \in i..(w - 1) : s[k] \in WhiteSpace

\* /^(\s*[-*+]|\d+\.)\s+/m
ListsCheck(s) ==
    \/ \E w \in 1..Len(s) :
         /\ s[w] \in Bullet
         /\ At(s, w + 1) \in WhiteSpace
         /\ SpaceBackToLineStart(s, w)
    \/ \E i \in 1..Len(s) :
         /\ s[i] \in Digit
         /\ LineStart(s, i)
         /\ LET d == RunEnd(s, i, Digit)
            IN At(s, d) = "." /\ At(s, d + 1) \in WhiteSpace

\* /\|.+\|.+\n\|[-\s|:]+\|/m
TablesCheck(s) ==
    \E i \in 1..Len(s) :
        /\ s[i] = "|"
        /\ LET le == EndOfLine(s, i)
           IN /\ At(s, le) = "\n"
              /\ \E j \in (i + 2)..(le - 2) : s[j] = "|"
              /\ At(s, le + 1) = "|"
              /\ \E m \in (le + 3)..(RunEnd(s, le + 2, TableRuleChar) - 1) : s[m] = "|"

\* /`[^`]+`/
InlineCodeCheck(s) ==
    \E i \in 1..Len(s) :
        /\ s[i] = BackTick
        /\ i + 1 <= Len(s)
        /\ s[i + 1] # BackTick
        /\ At(s, RunEndNot(s, i + 1, {BackTick})) = BackTick

\* /^#+\s+/ under the m flag at position i: the end of the match, 0 if none
HeadingEnd(s, i) ==
    IF At(s, i) = "#" /\ LineStart(s, i)
    THEN LET h == SkipHash(s, i)
         IN IF At(s, h) \in WhiteSpace THEN SkipSpace(s, h) ELSE 0
    ELSE 0

\* content.match(/^#+\s+/gm) from position i on, each match h as h.trim().length:
\* the number of '#' of every heading, in document order; q is where the leftmost
\* match starts (0 if there is none)
RECURSIVE HeadingLevels(_, _)
NextHeading(s, i) == FirstIn(i, Len(s), LAMBDA q : HeadingEnd(s, q) # 0)
HeadingLevelsAt(s, q) ==
    IF q = 0 THEN <<>>
    ELSE <<SkipHash(s, q) - q>> \o HeadingLevels(s, HeadingEnd(s, q))
HeadingLevels(s, i) == HeadingLevelsAt(s, NextHeading(s, i))

\* ConsistentLevels with "no heading at all" taken for inconsistent
ConsistentLevelsNonEmpty(headings) ==
    /\ Len(headings) > 0
    /\ \A k \in 1..Len(headings) :
         headings[k] = headings[1] \/ headings[k] = headings[1] + 1

ConsistentLevels(headings) ==
    IF Len(headings) > 1
    THEN \A k \in 1..Len(headings) :
            headings[k] = headings[1] \/ headings[k] = headings[1] + 1
    ELSE TRUE

ConsistentHeadingsCheck(s) == ConsistentLevels(HeadingLevels(s, 1))

PlaceholderWords == <<<<"t","o","d","o">>, <<"t","b","d">>, <<"l","o","r","e","m"," ","i","p","s",
    "u","m">>, <<"r","e","p","l","a","c","e"," ","t","h","i","s">>>>

NoPlaceholderCheck(s) == ~AltWithinCI(s, 1, Len(s) + 1, PlaceholderWords)

\* /(#+[^ \n])|(\[[^\]]*\]\([^)]+\s*$)/m
BrokenMarkdownTest(s) ==
    \/ \E i \in 1..Len(s) :
         /\ s[i] = "#"
         /\ \E h \in (i + 1)..SkipHash(s, i) : h <= Len(s) /\ s[h] \notin {" ", "\n"}
    \/ \E i \in 1..Len(s) :
         /\ s[i] = "["
         /\ LET j == RunEndNot(s, i + 1, {"]"})
            IN /\ At(s, j) = "]"
               /\ At(s, j + 1) = "("
               /\ \E x \in (j + 3)..RunEndNot(s, j + 2, {")"}) :
                    \E e \in x..SkipSpace(s, x) : LineEnd(s, e)

NoBrokenMarkdownCheck(s) == ~BrokenMarkdownTest(s)

\* the lazy group of the section match holds ```
GroupHasCode(s, m) ==
    /\ m # NoMatch
    /\ \E q \in m.group..(m.end - Len(Fence)) : LitAt(s, q, Fence)

SectionHasCode(s, words) == GroupHasCode(s, SectionMatch(s, words))

\* the lazy group of the section match holds one of the inner words
GroupHasWord(s, m, inner) ==
    /\ m # NoMatch
    /\ AltWithinCI(s, m.group, m.end, inner)

SectionHasWord(s, words, inner) == GroupHasWord(s, SectionMatch(s, words), inner)

GuidelineWords ==
    <<<<"p","u","l","l"," ","r","e","q","u","e","s","t">>, <<"i","s","s","u","e">>, <<"c","o","n",
        "t","r","i","b","u","t">>, <<"g","u","i","d","e","l","i","n","e">>, <<"h","o","w"," ","t",
            "o">>>>
LicenseNames ==
    <<<<"m","i","t">>, <<"a","p","a","c","h","e">>, <<"g","p","l">>, <<"b","s","d">>, <<"m","o",
        "z","i","l","l","a">>, <<"u","n","l","i","c","e","n","s","e">>, <<"l","g","p","l">>,
             <<"c","c">>>>

\* crit.check(content), by rule name
ExtraCheck(name, s) ==
    CASE name = "Proper Title Format" -> ProperTitleTest(s)
      [] name = "Description Length" -> DescriptionLengthCheck(s)
      [] name = "Table of Contents" -> HashWordTest(s, TocWords)
      [] name = "Multiple Badges" -> MultipleBadgesCheck(s)
      [] name = "Images/Screenshots" -> ImagesCheck(s)
      [] name = "Links" -> LinksCheck(s)
      [] name = "Lists" -> ListsCheck(s)
      [] name = "Tables" -> TablesCheck(s)
      [] name = "Inline Code" -> InlineCodeCheck(s)
      [] name = "Blockquotes" -> MarkerLineTest(s, ">")
      [] name = "Consistent Heading Levels" -> ConsistentHeadingsCheck(s)
      [] name = "No Placeholder Text" -> NoPlaceholderCheck(s)
      [] name = "No Broken Markdown" -> NoBrokenMarkdownCheck(s)
      [] name = "Installation Section Has Code" -> SectionHasCode(s, InstallationWords)
      [] name = "Usage Section Has Code" -> SectionHasCode(s, UsageWords)
      [] name = "Example Section Has Code" -> SectionHasCode(s, ExampleWords)
      [] name = "Contributing Section Has Guidelines" ->
             SectionHasWord(s, ContributingWords, GuidelineWords)
      [] name = "License Section Has License Name" ->
             SectionHasWord(s, LicenseWords, LicenseNames)

(***************************************************************************)
(* The catalogs: name, score and suggestion of every rule, in order.  The  *)
(* pattern of a rule is SectionRegexTest / ExtraCheck at the rule's name.  *)
(***************************************************************************)
Rule(n, w, t) == [name |-> n, score |-> w, suggestion |-> t]

SectionCriteriaCatalog == <<
    Rule("Title", 10, "Add a title at the top using \"# Project Name\"."),
    Rule("Description", 10, "Add a description section."),
    Rule("Installation", 10, "Add an Installation section."),
    Rule("Usage", 10, "Add a Usage section."),
    Rule("Example", 5, "Add an Example section."),
    Rule("Contributing", 5, "Add a Contributing section."),
    Rule("License", 10, "Add a License section."),
    Rule("Badges", 5, "Add badges (e.g., build, coverage, npm version).") >>

ExtraCriteriaCatalog == <<
    Rule("Proper Title Format", 3, "Use a clear, properly capitalized project title."),
    Rule("Description Length", 3, "Provide a more detailed project description."),
    Rule("Table of Contents", 3, "Add a Table of Contents section."),
    Rule("Multiple Badges", 2, "Add more badges (e.g., build, coverage, npm version)."),
    Rule("Images/Screenshots", 3, "Add images or screenshots to illustrate your project."),
    Rule("Links", 2, "Add relevant links (e.g., documentation, homepage, issues)."),
    Rule("Lists", 2, "Use lists to organize information."),
    Rule("Tables", 2, "Add tables for structured data."),
    Rule("Inline Code", 2, "Use inline code for commands or filenames."),
    Rule("Blockquotes", 1, "Use blockquotes for tips or notes."),
    Rule("Consistent Heading Levels", 2, "Use consistent heading levels for structure."),
    Rule("No Placeholder Text", 2, "Remove placeholder text like TODO, TBD, or lorem ipsum."),
    Rule("No Broken Markdown", 2, "Fix broken Markdown syntax (headings, links, etc)."),
    Rule("Installation Section Has Code", 2, "Add code blocks to the Installation section."),
    Rule("Usage Section Has Code", 2, "Add code blocks to the Usage section."),
    Rule("Example Section Has Code", 1, "Add code blocks to the Example section."),
    Rule("Contributing Section Has Guidelines", 1,
         "Add contribution guidelines to the Contributing section."),
    Rule("License Section Has License Name", 1,
         "Specify the license type in the License section.") >>

Names(crits) == {crits[k].name : k \in 1..Len(crits)}

\* a value that is not there: an optional field left out, a variable never assigned
Undefined == "<undefined>"
\* if (v) ... on a string or undefined
Truthy(v) == v # Undefined /\ v # ""

\* one rule's entry in report.sections / report.extras
Outcome(crit, present) ==
    [present |-> present,
     score |-> IF present THEN crit.score ELSE 0,
     suggestion |-> IF present THEN Undefined ELSE crit.suggestion]

(***************************************************************************)
(* analyze, part by part.  The running values of one call are a record     *)
(* [totalScore, maxScore, sections, extras, suggestions, threw]; threw     *)
(* says that an exception has left the call.  faulty is the set of rules   *)
(* whose pattern evaluation throws in this call.                           *)
(***************************************************************************)
StartOfCall ==
    [totalScore |-> 0, maxScore |-> 0, sections |-> <<>>, extras |-> <<>>,
     suggestions |-> <<>>, threw |-> FALSE]

\* Record with the slip "maxScore += present ? crit.score : 0"
RecordMaxWhenPresent(acc, field, crit, present) ==
    [acc EXCEPT
        ![field] = (crit.name :> Outcome(crit, present)) @@ @,
        !.totalScore = @ + (IF present THEN crit.score ELSE 0),
        !.maxScore = @ + (IF present THEN crit.score ELSE 0),
        !.suggestions = IF ~present /\ (field = "sections" \/ Truthy(crit.suggestion))
                        THEN Append(@, crit.suggestion) ELSE @]

\* one turn of either loop: the rule's entry, the two sums, and the suggestion of
\* a rule that is not satisfied (field is "sections" or "extras"); the loop over the
\* sections pushes the suggestion as it is, the loop over the extras a non-empty one
Record(acc, field, crit, present) ==
    [acc EXCEPT
        ![field] = (crit.name :> Outcome(crit, present)) @@ @,
        !.totalScore = @ + (IF present THEN crit.score ELSE 0),
        !.maxScore = @ + crit.score,
        !.suggestions = IF ~present /\ (field = "sections" \/ Truthy(crit.suggestion))
                        THEN Append(@, crit.suggestion) ELSE @]

\* the loop "for (const crit of this.sectionCriteria)" from its k-th rule on; the
\* test is not guarded, so a throwing pattern ends the call
RECURSIVE SectionChecks(_, _, _, _, _)
SectionChecks(crits, k, content, faulty, acc) ==
    IF k > Len(crits) THEN acc
    ELSE IF crits[k].name \in faulty THEN [acc EXCEPT !.threw = TRUE]
    ELSE SectionChecks(crits, k + 1, content, faulty,
             Record(acc, "sections", crits[k], SectionRegexTest(crits[k].name, content)))

\* two runs of pieces next to each other: the last piece of the left one goes on
\* in the first piece of the right one
JoinPieces(L, R) ==
    SubSeq(L, 1, Len(L) - 1) \o <<L[Len(L)] \o R[1]>> \o SubSeq(R, 2, Len(R))

\* s[lo..hi].split('\n'), by halves
RECURSIVE SplitRange(_, _, _)
SplitRange(s, lo, hi) ==
    IF lo > hi THEN << <<>> >>
    ELSE IF lo = hi THEN (IF s[lo] = "\n" THEN << <<>>, <<>> >> ELSE << <<s[lo]>> >>)
    ELSE JoinPieces(SplitRange(s, lo, (lo + hi) \div 2),
                    SplitRange(s, (lo + hi) \div 2 + 1, hi))

\* content.split('\n')
SplitLines(s) == SplitRange(s, 1, Len(s))

MinLines == 10
MaxLines == 200
LengthFullScore == 10
LengthLongScore == 5
LengthMax == 10

\* the length check: [lines, score, suggestion]
\* Length with the slip ">= 200" for "> 200"
LengthInclusiveUpper(lines) ==
    IF Len(lines) < MinLines
    THEN [lines |-> Len(lines), score |-> 0,
          suggestion |-> "README is too short. Add more details."]
    ELSE IF Len(lines) >= MaxLines
    THEN [lines |-> Len(lines), score |-> LengthLongScore,
          suggestion |->
            "README is very long. Consider splitting into sections or separate docs."]
    ELSE [lines |-> Len(lines), score |-> LengthFullScore, suggestion |-> Undefined]

Length(lines) ==
    IF Len(lines) < MinLines
    THEN [lines |-> Len(lines), score |-> 0,
          suggestion |-> "README is too short. Add more details."]
    ELSE IF Len(lines) > MaxLines
    THEN [lines |-> Len(lines), score |-> LengthLongScore,
          suggestion |->
            "README is very long. Consider splitting into sections or separate docs."]
    ELSE [lines |-> Len(lines), score |-> LengthFullScore, suggestion |-> Undefined]

LengthCheck(content) == Length(SplitLines(content))

\* content.match(/```/g) from position i on: the number of matches, the leftmost
\* one starting at q (0 if there is none)
RECURSIVE FenceMatches(_, _)
NextFence(s, i) == FirstIn(i, Len(s), LAMBDA q : LitAt(s, q, Fence))
FenceMatchesAt(s, q) == IF q = 0 THEN 0 ELSE 1 + FenceMatches(s, q + Len(Fence))
FenceMatches(s, i) == FenceMatchesAt(s, NextFence(s, i))

\* n / 2 on numbers: the quotient is int + halves/2, which is no integer when n is odd
HalfOf(n) == [int |-> n \div 2, halves |-> n % 2]
\* x < k for such a quotient
HalfLess(x, k) == 2 * x.int + x.halves < 2 * k

MinHeadings == 3
MinCodeBlocks == 1
FormattingFullScore == 10
FormattingMax == 10

\* the formatting check: [headings, codeBlocks, score, suggestion]
\* Formatting with the two tests in the other order
FormattingCodeFirst(headingCount, codeBlockCount) ==
    IF HalfLess(codeBlockCount, MinCodeBlocks)
    THEN [headings |-> headingCount, codeBlocks |-> codeBlockCount, score |-> 0,
          suggestion |-> "Add code blocks for examples or usage instructions."]
    ELSE IF headingCount < MinHeadings
    THEN [headings |-> headingCount, codeBlocks |-> codeBlockCount, score |-> 0,
          suggestion |-> "Add more headings to organize your README."]
    ELSE [headings |-> headingCount, codeBlocks |-> codeBlockCount,
          score |-> FormattingFullScore, suggestion |-> Undefined]

Formatting(headingCount, codeBlockCount) ==
    IF headingCount < MinHeadings
    THEN [headings |-> headingCount, codeBlocks |-> codeBlockCount, score |-> 0,
          suggestion |-> "Add more headings to organize your README."]
    ELSE IF HalfLess(codeBlockCount, MinCodeBlocks)
    THEN [headings |-> headingCount, codeBlocks |-> codeBlockCount, score |-> 0,
          suggestion |-> "Add code blocks for examples or usage instructions."]
    ELSE [headings |-> headingCount, codeBlocks |-> codeBlockCount,
          score |-> FormattingFullScore, suggestion |-> Undefined]

FormattingCheck(content) ==
    Formatting(Len(HeadingLevels(content, 1)), HalfOf(FenceMatches(content, 1)))

\* AddMetric with "totalScore += score" left out
AddMetricNoScore(acc, metric, max) ==
    [acc EXCEPT !.maxScore = @ + max,
                !.suggestions = IF Truthy(metric.suggestion)
                                THEN Append(@, metric.suggestion) ELSE @]

\* totalScore += score; maxScore += 10; if (suggestion) suggestions.push(suggestion)
AddMetric(acc, metric, max) ==
    [acc EXCEPT !.totalScore = @ + metric.score,
                !.maxScore = @ + max,
                !.suggestions = IF Truthy(metric.suggestion)
                                THEN Append(@, metric.suggestion) ELSE @]

\* try { present = !!crit.check(content) } catch { present = false }
GuardedCheck(crit, content, faulty) ==
    IF crit.name \in faulty THEN FALSE ELSE ExtraCheck(crit.name, content)

\* the loop "for (const crit of this.extraCriteria)" from its k-th rule on
RECURSIVE ExtraChecks(_, _, _, _, _)
ExtraChecks(crits, k, content, faulty, acc) ==
    IF k > Len(crits) THEN acc
    ELSE ExtraChecks(crits, k + 1, content, faulty,
             Record(acc, "extras", crits[k], GuardedCheck(crits[k], content, faulty)))

NoReport ==
    [totalScore |-> 0, maxScore |-> 0, sections |-> <<>>,
     length |-> [lines |-> 0, score |-> 0, suggestion |-> Undefined],
     formatting |-> [headings |-> 0, codeBlocks |-> HalfOf(0), score |-> 0,
                     suggestion |-> Undefined],
     extras |-> <<>>, suggestions |-> <<>>]

\* the object analyze returns
ReportOf(acc, length, formatting) ==
    [totalScore |-> acc.totalScore,
     maxScore |-> acc.maxScore,
     sections |-> acc.sections,
     length |-> length,
     formatting |-> formatting,
     extras |-> acc.extras,
     suggestions |-> acc.suggestions]

\* Metrics with the two metrics added after the extra criteria
MetricsAfterExtras(acc, length, formatting, extras, content, faulty) ==
    IF acc.threw THEN [threw |-> TRUE, report |-> NoReport]
    ELSE [threw |-> FALSE,
          report |-> ReportOf(
              AddMetric(AddMetric(ExtraChecks(extras, 1, content, faulty, acc),
                                  length, LengthMax), formatting, FormattingMax),
              length, formatting)]

\* analyze after the section checks, given the results of the two metrics
Metrics(acc, length, formatting, extras, content, faulty) ==
    IF acc.threw THEN [threw |-> TRUE, report |-> NoReport]
    ELSE [threw |-> FALSE,
          report |-> ReportOf(
              ExtraChecks(extras, 1, content, faulty,
                  AddMetric(AddMetric(acc, length, LengthMax), formatting, FormattingMax)),
              length, formatting)]

\* analyze on a file holding content, with the catalogs sections and extras:
\* [threw, report]
AnalyzeContent(sections, extras, content, faulty) ==
    Metrics(SectionChecks(sections, 1, content, faulty, StartOfCall),
            LengthCheck(content), FormattingCheck(content), extras, content, faulty)

(***************************************************************************)
(* The documents the analyzer is run on: fragments of README text, put     *)
(* together in catalog order and followed by a number of empty lines.      *)
(***************************************************************************)
Fragments == <<
    <<"<U+FEFF>">>,
    <<"#"," ","P","r","o","j","\n">>,
    <<"!","[","c","i","]","(","a",".","s","v","g",")","\n","!","[","d","e","m","o","]","(","b",
        ".","p","n","g",")","\n">>,
    <<"#","#"," ","O","v","e","r","v","i","e","w","\n","T","h","i","s"," ","t","o","o","l"," ",
        "s","c","o","r","e","s"," ","a"," ","r","e","a","d","m","e"," ","f","i","l","e"," ","a","g","a","i","n","s","t"," ","a"," ","f","i","x","e","d"," ","l","i","s","t"," ","o","f"," ","r","u","l","e","s",".","\n">>,
    <<"#","#"," ","T","a","b","l","e"," ","o","f"," ","C","o","n","t","e","n","t","s","\n","-",
        " ","[","D","o","c","s","]","(","h","t","t","p","s",":","/","/","x",".","y",")","\n">>,
    <<"#","#"," ","I","n","s","t","a","l","l","a","t","i","o","n","\n",BackTick,BackTick,BackTick,
        "\n","n","p","m"," ","i","\n",BackTick,BackTick,BackTick,"\n">>,
    <<"#","#"," ","U","s","a","g","e","\n">>,
    <<"R","u","n"," ",BackTick,"r","a","n","k",BackTick,"\n",BackTick,BackTick,BackTick,"\n">>,
    <<"#","#","#"," ","N","o","t","e","s","\n",">"," ","t","i","p","\n">>,
    <<"|"," ","a"," ","|"," ","b"," ","|","\n","|","-","-","-","|","-","-","-","|","\n">>,
    <<"T","O","D","O","\n">>,
    <<"#","#"," ","C","o","n","t","r","i","b","u","t","i","n","g","\n","O","p","e","n"," ","a",
        "n"," ","i","s","s","u","e",".","\n">>,
    <<"#"," ","L","i","c","e","n","s","e","\n","#","#"," ","T","e","r","m","s","\n","M","I","T",
        "\n">>,
    <<"[","d","o","c","s","]","(","b","r","o","k","e","n","\n">>,
    <<"1","."," ","s","t","e","p","\n">>,
    <<"#","B","a","d","\n">>,
    <<"#","<U+000B>","v","<U+2028>","-","<U+00A0>","w","\n">>,
    <<"#","#"," ","E","x","a","m","p","l","e","\n",BackTick,BackTick,BackTick,"\n","x","\n",
        BackTick,BackTick,BackTick>>,
    <<"#","#"," ","L","i","c","e","n","s","e","\n","M","I","T">> >>

\* the fragments of the set S, in the order of Fragments, from the k-th on
RECURSIVE Assemble(_, _)
Assemble(S, k) ==
    IF k > Len(Fragments) THEN <<>>
    ELSE (IF k \in S THEN Fragments[k] ELSE <<>>) \o Assemble(S, k + 1)

EmptyLines(p) == [k \in 1..p |-> "\n"]

MaxFrags == 2
PadShort == 7
PadLong == 197

\* the sets of at most n fragments
RECURSIVE FragmentSets(_)
FragmentSets(n) ==
    IF n = 0 THEN {{}}
    ELSE LET fewer == FragmentSets(n - 1)
         IN fewer \cup {S \cup {k} : S \in fewer, k \in 1..Len(Fragments)}

Documents ==
    {Assemble(S, 1) \o EmptyLines(p) : S \in FragmentSets(MaxFrags), p \in {0, PadShort, PadLong}}

\* one fragment at most, no empty lines
SmallDocuments == {Assemble(S, 1) : S \in FragmentSets(1)}

(***************************************************************************)
(* State.  analyze is an async function: a call runs up to the await of    *)
(* readFile and hands back a pending promise; the rest of the body runs in *)
(* a later turn, when the read has been answered, and settles the promise. *)
(***************************************************************************)
VARIABLES
    sectionCriteria,   \* the analyzer's primary catalog
    extraCriteria,     \* the analyzer's secondary catalog
    pc,                \* where the command line stands ("library": no command line)
    calls,             \* the number of calls of analyze made on this analyzer
    pending,           \* the calls whose promise is pending, by their number
    settled,           \* the call whose promise settled last, 0 before any
    content,           \* the text that call read
    faulty,            \* the rules whose pattern evaluation threw in that call
    outcome,           \* "idle" before any, then "returned", "threw" or "rejected"
    report             \* what that call returned

vars ==
    <<sectionCriteria, extraCriteria, pc, calls, pending, settled, content, faulty, outcome,
      report>>

\* a ReadMeAnalyzer as constructed, nothing called yet
Fresh ==
    /\ sectionCriteria = SectionCriteriaCatalog
    /\ extraCriteria = ExtraCriteriaCatalog
    /\ calls = 0
    /\ pending = {}
    /\ settled = 0
    /\ content = <<>>
    /\ faulty = {}
    /\ outcome = "idle"
    /\ report = NoReport

\* the command line at its first statement
Init == Fresh /\ pc = "start"

\* analyze(readmePath) up to "await fs.readFile": the promise is pending
AnalyzeCall ==
    /\ calls' = calls + 1
    /\ pending' = pending \cup {calls + 1}
    /\ UNCHANGED <<sectionCriteria, extraCriteria, settled, content, faulty, outcome, report>>

\* how the call id ends, with r what the body made of the text doc
Settle(id, doc, bad, r) ==
    /\ pending' = pending \ {id}
    /\ settled' = id
    /\ content' = doc
    /\ faulty' = bad
    /\ outcome' = IF r.threw THEN "threw" ELSE "returned"
    /\ report' = r.report
    /\ UNCHANGED <<sectionCriteria, extraCriteria, calls>>

\* the read of call id answers with the text doc: the body runs to its end in one
\* turn, the patterns of bad throwing
AnalyzeResume(id, doc, bad) ==
    Settle(id, doc, bad, AnalyzeContent(sectionCriteria, extraCriteria, doc, bad))

\* the read of call id fails (a directory, a file removed or unreadable): the await
\* throws and the promise is rejected before any rule is evaluated
AnalyzeReject(id) ==
    /\ pending' = pending \ {id}
    /\ settled' = id
    /\ content' = <<>>
    /\ faulty' = {}
    /\ outcome' = "rejected"
    /\ report' = NoReport
    /\ UNCHANGED <<sectionCriteria, extraCriteria, calls>>

Idle == UNCHANGED <<sectionCriteria, extraCriteria, calls, pending, settled, content, faulty,
                    outcome, report>>

(***************************************************************************)
(* The command line.                                                       *)
(***************************************************************************)
\* no path argument: exit code 1
NoArgument == pc = "start" /\ pc' = "exit1" /\ Idle

\* the path does not exist: exit code 1
MissingFile == pc = "start" /\ pc' = "exit1" /\ Idle

\* main up to "await analyzer.analyze(absolutePath)"
MainCall == pc = "start" /\ pc' = "awaiting" /\ AnalyzeCall

\* the file is read and analysed
MainRead ==
    /\ pc = "awaiting"
    /\ \E id \in pending : \E doc \in Documents : AnalyzeResume(id, doc, {})
    /\ UNCHANGED pc

\* the path is there but cannot be read as a file
MainReadFails ==
    /\ pc = "awaiting"
    /\ \E id \in pending : AnalyzeReject(id)
    /\ UNCHANGED pc

\* main after the await: the report is printed
MainReport ==
    /\ pc = "awaiting"
    /\ pending = {}
    /\ outcome = "returned"
    /\ pc' = "reported"
    /\ Idle

\* main's catch: "Error analyzing README:" and exit code 1
MainCatch ==
    /\ pc = "awaiting"
    /\ pending = {}
    /\ outcome \in {"threw", "rejected"}
    /\ pc' = "exit1"
    /\ Idle

Next ==
    \/ NoArgument
    \/ MissingFile
    \/ MainCall
    \/ MainRead
    \/ MainReadFails
    \/ MainReport
    \/ MainCatch

Spec == Init /\ [][Next]_vars

(***************************************************************************)
(* The command line with pattern evaluations that throw.                   *)
(***************************************************************************)
MaxFaults == 1

RuleNames == Names(SectionCriteriaCatalog) \cup Names(ExtraCriteriaCatalog)

\* the sets of at most n rules
RECURSIVE FaultSets(_)
FaultSets(n) ==
    IF n = 0 THEN {{}}
    ELSE LET fewer == FaultSets(n - 1)
         IN fewer \cup {S \cup {r} : S \in fewer, r \in RuleNames}

MainReadFaulty ==
    /\ pc = "awaiting"
    /\ \E id \in pending : \E doc \in SmallDocuments : \E bad \in FaultSets(MaxFaults) :
           AnalyzeResume(id, doc, bad)
    /\ UNCHANGED pc

NextFault ==
    \/ NoArgument
    \/ MissingFile
    \/ MainCall
    \/ MainReadFaulty
    \/ MainReadFails
    \/ MainReport
    \/ MainCatch

SpecFault == Init /\ [][NextFault]_vars

(***************************************************************************)
(* One analyzer used as a library: calls made at any time, also while      *)
(* earlier ones are pending, and answered in any order.                    *)
(***************************************************************************)
MaxCalls == 2

RepeatDocuments ==
    {d \o EmptyLines(p) : d \in SmallDocuments, p \in {0, PadLong}}

InitLibrary == Fresh /\ pc = "library"

Call ==
    /\ calls < MaxCalls
    /\ AnalyzeCall
    /\ UNCHANGED pc

Read ==
    /\ \E id \in pending : \E doc \in RepeatDocuments : AnalyzeResume(id, doc, {})
    /\ UNCHANGED pc

ReadFails ==
    /\ \E id \in pending : AnalyzeReject(id)
    /\ UNCHANGED pc

NextRepeat == Call \/ Read \/ ReadFails

SpecRepeat == InitLibrary /\ [][NextRepeat]_vars

(***************************************************************************)
(* Measures of a document and of a report, stated apart from the way       *)
(* analyze computes them; the properties below are written with these.     *)
(***************************************************************************)
RECURSIVE SumScores(_, _, _)
\* the sum of the score fields of the entries of crits[k..] in a report part
SumScores(part, crits, k) ==
    IF k > Len(crits) THEN 0 ELSE part[crits[k].name].score + SumScores(part, crits, k + 1)

RECURSIVE SumWeights(_, _)
\* the sum of the weights of crits[k..]
SumWeights(crits, k) ==
    IF k > Len(crits) THEN 0 ELSE crits[k].score + SumWeights(crits, k + 1)

RECURSIVE Remediations(_, _, _)
\* the suggestions of the rules of crits[k..] whose entry says "not present"
Remediations(part, crits, k) ==
    IF k > Len(crits) THEN <<>>
    ELSE (IF part[crits[k].name].present THEN <<>> ELSE <<crits[k].suggestion>>)
         \o Remediations(part, crits, k + 1)

\* the suggestion of a metric, as a list of none or one
MetricRemediation(metric) ==
    IF metric.suggestion = Undefined THEN <<>> ELSE <<metric.suggestion>>

Unsatisfied(part) == Cardinality({n \in DOMAIN part : ~part[n].present})

\* every rule of the catalog has an entry that is its weight when present, else 0
WellFormedPart(part, crits) ==
    /\ DOMAIN part = Names(crits)
    /\ \A k \in 1..Len(crits) :
         /\ part[crits[k].name].present \in BOOLEAN
         /\ part[crits[k].name].score =
                (IF part[crits[k].name].present THEN crits[k].score ELSE 0)

\* the number of lines: one more than the number of newline characters
LineCount(s) == Cardinality({i \in 1..Len(s) : s[i] = "\n"}) + 1

\* the number of heading lines: line starts where a run of '#' ends in whitespace
HeadingLineCount(s) ==
    Cardinality({i \in 1..Len(s) :
        /\ s[i] = "#"
        /\ LineStart(s, i)
        /\ \E h \in (i + 1)..(Len(s)) :
             /\ s[h] \in WhiteSpace
             /\ \A k \in i..(h - 1) : s[k] = "#"})

\* the number of fence markers: every third character of each run of grave accents
FenceMarkerCount(s) ==
    Cardinality({q \in 1..Len(s) :
        /\ LitAt(s, q, Fence)
        /\ \E b \in 1..q :
             /\ At(s, b - 1) # BackTick
             /\ \A k \in b..q : s[k] = BackTick
             /\ (q - b) % 3 = 0})

Returned == outcome = "returned"

(***************************************************************************)
(* C1.  The report's totalScore is the sum of the score fields of all      *)
(* primary outcomes, the length metric, the formatting metric and all      *)
(* secondary outcomes, each rule outcome being its weight when satisfied   *)
(* and 0 otherwise, and 0 <= totalScore <= maxScore.                       *)
(***************************************************************************)
C1_TotalIsSumAndBounded ==
    Returned =>
        /\ WellFormedPart(report.sections, sectionCriteria)
        /\ WellFormedPart(report.extras, extraCriteria)
        /\ report.totalScore =
               SumScores(report.sections, sectionCriteria, 1) + report.length.score
               + report.formatting.score + SumScores(report.extras, extraCriteria, 1)
        /\ 0 <= report.totalScore
        /\ report.totalScore <= report.maxScore

\* a report in which rules of both catalogs and both metrics award points
C1_Witness ==
    /\ Returned
    /\ report.length.score = 10
    /\ report.formatting.score = 10
    /\ SumScores(report.sections, sectionCriteria, 1) > 0
    /\ SumScores(report.extras, extraCriteria, 1) > 6

(***************************************************************************)
(* C2.  maxScore is the same for every document and every call on one      *)
(* analyzer: 65 for the 8 primary weights, plus the 18 secondary weights,  *)
(* plus 10 and 10 for the two metrics; and a call leaves the catalogs and  *)
(* every weight as they were.                                              *)
(***************************************************************************)
C2_MaxScoreConstant ==
    /\ sectionCriteria = SectionCriteriaCatalog
    /\ extraCriteria = ExtraCriteriaCatalog
    /\ Len(sectionCriteria) = 8
    /\ Len(extraCriteria) = 18
    /\ SumWeights(sectionCriteria, 1) = 65
    /\ Returned =>
         report.maxScore = 65 + SumWeights(extraCriteria, 1) + 10 + 10

\* a later call on the same analyzer, on a document that satisfies some rules
C2_Witness ==
    /\ Returned
    /\ calls >= 2
    /\ SumScores(report.sections, sectionCriteria, 1) > 0
    /\ Unsatisfied(report.sections) > 0

(***************************************************************************)
(* C3.  report.suggestions is, in this order: the remediation of each      *)
(* unsatisfied primary rule in catalog order, the length remediation if    *)
(* there is one, the formatting remediation if there is one, and the       *)
(* remediation of each unsatisfied secondary rule in catalog order; its    *)
(* length is the number of unsatisfied rules and metrics.                  *)
(***************************************************************************)
C3_SuggestionsInOrder ==
    Returned =>
        /\ report.suggestions =
               Remediations(report.sections, sectionCriteria, 1)
               \o MetricRemediation(report.length)
               \o MetricRemediation(report.formatting)
               \o Remediations(report.extras, extraCriteria, 1)
        /\ Len(report.suggestions) =
               Unsatisfied(report.sections) + Unsatisfied(report.extras)
               + (IF report.length.score = LengthFullScore THEN 0 ELSE 1)
               + (IF report.formatting.score = FormattingFullScore THEN 0 ELSE 1)

\* satisfied and unsatisfied rules in both catalogs, one metric with and one
\* without a remediation
C3_Witness ==
    /\ Returned
    /\ report.length.suggestion # Undefined
    /\ report.formatting.suggestion = Undefined
    /\ Unsatisfied(report.sections) \in 1..7
    /\ Unsatisfied(report.extras) \in 1..17

(***************************************************************************)
(* C4.  A rule of either catalog whose predicate throws gets the outcome   *)
(* "not satisfied", 0 points and its remediation; the later rules are      *)
(* still evaluated and analyze returns a complete report.                  *)
(***************************************************************************)
C4_FaultIsNotSatisfied ==
    (outcome # "idle" /\ faulty # {}) =>
        /\ Returned
        /\ DOMAIN report.sections = Names(sectionCriteria)
        /\ DOMAIN report.extras = Names(extraCriteria)
        /\ \A n \in faulty \cap Names(sectionCriteria) :
             report.sections[n].present = FALSE /\ report.sections[n].score = 0
        /\ \A n \in faulty \cap Names(extraCriteria) :
             report.extras[n].present = FALSE /\ report.extras[n].score = 0

(***************************************************************************)
(* C5.  For the empty document analyze returns a complete report with no   *)
(* primary and no secondary rule satisfied and totalScore 0, against the   *)
(* fixed maxScore.                                                         *)
(***************************************************************************)
C5_EmptyScoresNothing ==
    (Returned /\ content = <<>>) =>
        /\ Unsatisfied(report.sections) = Len(sectionCriteria)
        /\ Unsatisfied(report.extras) = Len(extraCriteria)
        /\ report.totalScore = 0
        /\ report.maxScore = 121

\* C5 as amended: for the empty document no primary rule is satisfied, exactly
\* the three secondary rules that ask for the absence of something (Consistent
\* Heading Levels, No Placeholder Text, No Broken Markdown) are satisfied, and
\* totalScore is their 2 + 2 + 2 = 6, against the fixed maxScore of 121
C5_EmptyScoresAbsenceRules ==
    (Returned /\ content = <<>>) =>
        /\ DOMAIN report.sections = Names(sectionCriteria)
        /\ DOMAIN report.extras = Names(extraCriteria)
        /\ Unsatisfied(report.sections) = Len(sectionCriteria)
        /\ {n \in DOMAIN report.extras : report.extras[n].present} =
               {"Consistent Heading Levels", "No Placeholder Text", "No Broken Markdown"}
        /\ report.totalScore = 6
        /\ report.maxScore = 121

\* analyze has returned on the empty document
C5_Witness == Returned /\ content = <<>> /\ report.length.lines = 1

(***************************************************************************)
(* C6.  With n the number of lines: n < 10 scores 0 with "README is too    *)
(* short. Add more details."; 10 <= n <= 200 scores 10 with no             *)
(* remediation; n > 200 scores 5 with the "very long" remediation;         *)
(* report.length.lines is n; the metric adds 10 to maxScore in every case. *)
(***************************************************************************)
C6_LengthBuckets ==
    Returned =>
        /\ report.length.lines = LineCount(content)
        /\ LineCount(content) < 10 =>
             /\ report.length.score = 0
             /\ report.length.suggestion = "README is too short. Add more details."
        /\ (LineCount(content) >= 10 /\ LineCount(content) <= 200) =>
             /\ report.length.score = 10
             /\ report.length.suggestion = Undefined
        /\ LineCount(content) > 200 =>
             /\ report.length.score = 5
             /\ report.length.suggestion =
                  "README is very long. Consider splitting into sections or separate docs."
        /\ report.maxScore - SumWeights(sectionCriteria, 1) - SumWeights(extraCriteria, 1)
               - FormattingMax = 10

\* the first line count past the upper threshold
C6_Witness == Returned /\ LineCount(content) = 201 /\ report.length.score = 5

(***************************************************************************)
(* C7.  With h the number of heading lines and c the number of complete    *)
(* pairs of fence markers: h < 3 scores 0 with "Add more headings to       *)
(* organize your README." whatever c is; otherwise c < 1 scores 0 with     *)
(* "Add code blocks for examples or usage instructions."; otherwise the    *)
(* score is 10 with no remediation.                                        *)
(***************************************************************************)
C7_FormattingThresholds ==
    Returned =>
        /\ report.formatting.headings = HeadingLineCount(content)
        /\ HeadingLineCount(content) < 3 =>
             /\ report.formatting.score = 0
             /\ report.formatting.suggestion = "Add more headings to organize your README."
        /\ (HeadingLineCount(content) >= 3 /\ FenceMarkerCount(content) \div 2 < 1) =>
             /\ report.formatting.score = 0
             /\ report.formatting.suggestion =
                  "Add code blocks for examples or usage instructions."
        /\ (HeadingLineCount(content) >= 3 /\ FenceMarkerCount(content) \div 2 >= 1) =>
             /\ report.formatting.score = 10
             /\ report.formatting.suggestion = Undefined

\* too few headings although there is a complete code block
C7_Witness ==
    /\ Returned
    /\ HeadingLineCount(content) = 2
    /\ FenceMarkerCount(content) \div 2 >= 1
    /\ report.formatting.score = 0

(***************************************************************************)
(* C8.  With f fence markers in the document, report.formatting.codeBlocks *)
(* is the integer floor(f / 2): an unclosed trailing fence is not counted. *)
(***************************************************************************)
C8_CodeBlocksIsFloor ==
    Returned =>
        /\ report.formatting.codeBlocks.halves = 0
        /\ report.formatting.codeBlocks.int = FenceMarkerCount(content) \div 2

(***************************************************************************)
(* The section of a heading as the specification words it: from the        *)
(* heading to the next heading of equal or higher rank, or to the end of   *)
(* the document.                                                           *)
(***************************************************************************)
\* a heading line starts at i: a run of '#', whitespace, then one of the words
TitledHeadingAt(s, i, words) ==
    /\ At(s, i) = "#"
    /\ LineStart(s, i)
    /\ SkipSpace(s, SkipHash(s, i)) > SkipHash(s, i)
    /\ AltAtCI(s, SkipSpace(s, SkipHash(s, i)), words) # 0

\* a heading line of rank at most r starts right after the newline at p
HeadingOfRankAfter(s, p, r) ==
    /\ At(s, p) = "\n"
    /\ At(s, p + 1) = "#"
    /\ SkipHash(s, p + 1) - (p + 1) <= r
    /\ At(s, SkipHash(s, p + 1)) \in WhiteSpace

\* where the section of the heading at i ends: the newline before the next heading of
\* equal or higher rank, or the end of the document
SectionEnd(s, i) ==
    IF \E p \in (i + 1)..Len(s) : HeadingOfRankAfter(s, p, SkipHash(s, i) - i)
    THEN FirstIn(i + 1, Len(s), LAMBDA p : HeadingOfRankAfter(s, p, SkipHash(s, i) - i))
    ELSE Len(s) + 1

\* the document's first heading of the section has a code fence in its section
SectionShowsCode(s, words) ==
    \E i \in 1..Len(s) :
        /\ i = FirstIn(1, Len(s), LAMBDA j : TitledHeadingAt(s, j, words))
        /\ \E q \in i..(SectionEnd(s, i) - Len(Fence)) : LitAt(s, q, Fence)

\* the document's first heading of the section has one of the inner words in the
\* text after it
SectionShowsWord(s, words, inner) ==
    \E i \in 1..Len(s) :
        /\ i = FirstIn(1, Len(s), LAMBDA j : TitledHeadingAt(s, j, words))
        /\ AltWithinCI(s, HashWordEnd(s, SkipHash(s, i) - 1, words), SectionEnd(s, i), inner)

(***************************************************************************)
(* C9.  Each section-scoped secondary rule is satisfied whenever the       *)
(* document has the section's heading and the secondary condition holds    *)
(* in the text from that heading to the next heading of equal or higher    *)
(* rank, or to the end of the document when none follows, also when the    *)
(* section is the last one and the document does not end with a newline.   *)
(***************************************************************************)
C9_SectionScopedRules ==
    Returned =>
        /\ SectionShowsCode(content, InstallationWords) =>
               report.extras["Installation Section Has Code"].present
        /\ SectionShowsCode(content, UsageWords) =>
               report.extras["Usage Section Has Code"].present
        /\ SectionShowsCode(content, ExampleWords) =>
               report.extras["Example Section Has Code"].present
        /\ SectionShowsWord(content, ContributingWords, GuidelineWords) =>
               report.extras["Contributing Section Has Guidelines"].present
        /\ SectionShowsWord(content, LicenseWords, LicenseNames) =>
               report.extras["License Section Has License Name"].present

(***************************************************************************)
(* C10.  "No Broken Markdown" is satisfied, and awarded its 2 points, for  *)
(* every document with no malformed heading and no malformed link; so for  *)
(* a document whose only '#' are runs at a line start followed by a space  *)
(* and that holds no link.                                                 *)
(***************************************************************************)
\* every '#' belongs to a run that starts a line and is followed by a space
OnlyWellFormedHeadings(s) ==
    \A i \in 1..Len(s) :
        s[i] = "#" =>
            /\ \E b \in 1..i : LineStart(s, b) /\ \A k \in b..i : s[k] = "#"
            /\ At(s, SkipHash(s, i)) = " "

NoLinkSyntax(s) == \A i \in 1..Len(s) : s[i] \notin {"[", "]"}

C10_WellFormedIsNotBroken ==
    (Returned /\ OnlyWellFormedHeadings(content) /\ NoLinkSyntax(content)) =>
        /\ report.extras["No Broken Markdown"].present
        /\ report.extras["No Broken Markdown"].score = 2

====
